---- MODULE Spec2Model ----
(***************************************************************************)
(* A model of holopy's parameter-tying engine: the composite scatterer     *)
(* (scattering/scatterer/composite.py) and the fit parametrization         *)
(* (fitting/model.py).                                                     *)
(*                                                                         *)
(* Names are Python strings; they are modelled as sequences of one-        *)
(* character strings so that split(':', 1), int(), the common suffix and   *)
(* strip(':_') are computed as the code computes them.  A Python dict is   *)
(* modelled as the sequence of its items in insertion order, [k, v].       *)
(***************************************************************************)
EXTENDS Integers, Sequences, FiniteSets, TLC

\* ------------------------------------------------------------- bounds
MaxKids == 3
MaxDepth == 2
MaxTieCalls == 2
MaxPrims == 3

\* ------------------------------------------------------------ strings
Digits == <<"0", "1", "2", "3", "4", "5", "6", "7", "8", "9">>

IsDigit(ch) == \E i \in 1..Len(Digits) : Digits[i] = ch

DigitVal(ch) == (CHOOSE i \in 1..Len(Digits) : Digits[i] = ch) - 1

\* '{0}'.format(i) for a natural number i
RECURSIVE Str(_)
Str(i) == IF i < Len(Digits) THEN <<Digits[i + 1]>>
          ELSE Str(i \div Len(Digits)) \o <<Digits[(i % Len(Digits)) + 1]>>

\* int(s) for a string over the model's alphabet; -1 stands for ValueError
RECURSIVE IntAcc(_, _)
IntAcc(s, acc) == IF s = <<>> THEN acc
                  ELSE IntAcc(Tail(s), acc * Len(Digits) + DigitVal(Head(s)))

IntOf(s) == IF s # <<>> /\ \A i \in 1..Len(s) : IsDigit(s[i])
            THEN IntAcc(s, 0) ELSE -1

HasColon(s) == \E i \in 1..Len(s) : s[i] = ":"

FirstColon(s) == CHOOSE i \in 1..Len(s) : s[i] = ":" /\ \A j \in 1..(i - 1) : s[j] # ":"

\* key.split(':', 1): the part before and the part after the first colon
SplitHead(s) == SubSeq(s, 1, FirstColon(s) - 1)

SplitTail(s) == SubSeq(s, FirstColon(s) + 1, Len(s))

\* '{0}:{1}'.format(i, key)
Prefixed(i, key) == Str(i) \o <<":">> \o key

\* ------------------------------------------------------- ordered dicts
Keys(d) == {d[i].k : i \in 1..Len(d)}

Has(d, k) == \E i \in 1..Len(d) : d[i].k = k

Get(d, k) == d[CHOOSE i \in 1..Len(d) : d[i].k = k].v

\* d[k] = v: an existing key keeps its position
Put(d, k, v) == IF Has(d, k)
                THEN [i \in 1..Len(d) |-> IF d[i].k = k THEN [k |-> k, v |-> v] ELSE d[i]]
                ELSE Append(d, [k |-> k, v |-> v])

RECURSIVE Update(_, _)
Update(d, e) == IF e = <<>> THEN d
                ELSE Update(Put(d, Head(e).k, Head(e).v), Tail(e))

RECURSIVE Without(_, _)
Without(d, k) == IF d = <<>> THEN <<>>
                 ELSE IF Head(d).k = k THEN Without(Tail(d), k)
                 ELSE <<Head(d)>> \o Without(Tail(d), k)

\* ------------------------------------------------------------- values
\* A raw value is a plain number (h = 0) or a prior handle h > 0 whose
\* guess is v.  Two handles are the same object iff their h agree.
Guess == <<1, 1>>

Num(x) == [h |-> 0, v |-> x]

Prior(i) == [h |-> i, v |-> Guess[i]]

Vals == {Num(1)} \cup {Prior(i) : i \in 1..Len(Guess)}

IsNumber(x) == x.h = 0

\* par is ref_par
Is(x, y) == x = y

\* x == y: numbers by value, priors by their attributes, never across kinds
Eq(x, y) == (IsNumber(x) <=> IsNumber(y)) /\ x.v = y.v

KeyR == <<"r">>

Prim(x) == [kind |-> "prim", pars |-> <<[k |-> KeyR, v |-> x]>>]

Prims == {Prim(x) : x \in Vals}

Composite(scats, ts) == [kind |-> "comp", scatterers |-> scats, ties |-> ts]

\* ------------------------------------------- composite: the tie engine
InSeq(s, x) == \E i \in 1..Len(s) : s[i] = x

\* _all_ties: sum(self.ties.values(), [])
RECURSIVE AllTies(_)
AllTies(ts) == IF ts = <<>> THEN <<>> ELSE Head(ts).v \o AllTies(Tail(ts))

\* _reversed_ties[name]: groups update the reversed dict in order, so the
\* last group that lists the name wins
ReversedTie(ts, name) ==
    ts[CHOOSE g \in 1..Len(ts) :
         /\ InSeq(ts[g].v, name)
         /\ \A g2 \in (g + 1)..Len(ts) : ~InSeq(ts[g2].v, name)].k

RECURSIVE Parameters(_)

\* scatterer.parameters of a child: a primitive's own items, or the
\* collapsed view of a nested composite
ChildParameters(s) == IF s.kind = "prim" THEN [err |-> "none", d |-> s.pars]
                      ELSE Parameters(s)

PrefixAll(i, d) == [j \in 1..Len(d) |-> [k |-> Prefixed(i, d[j].k), v |-> d[j].v]]

RECURSIVE RawFrom(_, _, _)

\* one turn of the raw_parameters loop, p being the child's parameters
RawNext(scats, i, acc, p) ==
    IF p.err # "none" THEN [err |-> p.err, d |-> <<>>]
    ELSE RawFrom(scats, i + 1, Update(acc, PrefixAll(i - 1, p.d)))

RawFrom(scats, i, acc) ==
    IF i > Len(scats) THEN [err |-> "none", d |-> acc]
    ELSE RawNext(scats, i, acc, ChildParameters(scats[i]))

RawParameters(c) == RawFrom(c.scatterers, 1, <<>>)

\* CheckGroup with the members compared by identity (is) instead of ==
CheckGroupByIdentity(raw, names) ==
    IF \E j \in 1..Len(names) : ~Has(raw, names[j]) THEN "UnknownTieMember"
    ELSE IF names = <<>> THEN "IndexError"
    ELSE IF \E j \in 1..Len(names) : ~Is(Get(raw, names[j]), Get(raw, names[1]))
         THEN "InconsistentTieValue"
    ELSE "none"

\* one group of _check_ties: every member present, then every member
\* equal to the first
CheckGroup(raw, names) ==
    IF \E j \in 1..Len(names) : ~Has(raw, names[j]) THEN "UnknownTieMember"
    ELSE IF names = <<>> THEN "IndexError"
    ELSE IF \E j \in 1..Len(names) : ~Eq(Get(raw, names[j]), Get(raw, names[1]))
         THEN "InconsistentTieValue"
    ELSE "none"

RECURSIVE CheckFrom(_, _, _)

\* CheckNext with the loop run to its end, the last group that raises
\* deciding the error
CheckNextLast(raw, ts, g, e) ==
    IF CheckFrom(raw, ts, g + 1) # "none" THEN CheckFrom(raw, ts, g + 1) ELSE e

\* the first group that raises ends the loop, e being group g's outcome
CheckNext(raw, ts, g, e) == IF e # "none" THEN e ELSE CheckFrom(raw, ts, g + 1)

CheckFrom(raw, ts, g) ==
    IF g > Len(ts) THEN "none"
    ELSE CheckNext(raw, ts, g, CheckGroup(raw, ts[g].v))

\* _check_ties over the raw parameters r it has read
CheckRaw(r, ts) == IF r.err # "none" THEN r.err ELSE CheckFrom(r.d, ts, 1)

CheckTies(c) == CheckRaw(RawParameters(c), c.ties)

\* self.ties[tn].append(new)
Extend(ts, tn, new) == Put(ts, tn, Append(Get(ts, tn), new))

\* the table edit of add_tie, before its check
AddTieTable(ts, old, new) ==
    IF Has(ts, old)
    THEN [err |-> "none", ties |-> Extend(ts, old, new)]
    ELSE IF InSeq(AllTies(ts), old)
    THEN [err |-> "none", ties |-> Extend(ts, ReversedTie(ts, old), new)]
    ELSE IF ~HasColon(new) THEN [err |-> "IndexError", ties |-> ts]
    ELSE [err |-> "none",
          ties |-> Put(ts, IF Has(ts, SplitTail(new)) THEN new ELSE SplitTail(new),
                       <<new, old>>)]

\* the composite as it stands, with what _check_ties raises on it
Checked(c) == [err |-> CheckTies(c), c |-> c]

\* add_tie once the table edit t is made: the edit stays whatever the
\* check raises
AddTieWith(c, t) ==
    IF t.err # "none" THEN [err |-> t.err, c |-> c]
    ELSE Checked([c EXCEPT !.ties = t.ties])

AddTie(c, old, new) == AddTieWith(c, AddTieTable(c.ties, old, new))

\* the entries of others that hold the handle par itself
Matches(par, others) ==
    {j \in 1..Len(others) : Is(par, others[j].v) /\ ~IsNumber(par)}

RECURSIVE FindFrom(_, _, _)

FindNext(raw, i, r) == IF r.err # "none" THEN r ELSE FindFrom(r.c, raw, i + 1)

\* one turn of the _find_new_ties loop; others is
\* dict_without(reference_parameters, fullkey)
FindAt(c, raw, i, others) ==
    IF InSeq(AllTies(c.ties), raw[i].k) \/ Matches(raw[i].v, others) = {}
    THEN FindFrom(c, raw, i + 1)
    ELSE FindNext(raw, i,
            AddTie(c, others[CHOOSE j \in Matches(raw[i].v, others) :
                                \A j2 \in Matches(raw[i].v, others) : j <= j2].k,
                   raw[i].k))

FindFrom(c, raw, i) ==
    IF i > Len(raw) THEN [err |-> "none", c |-> c]
    ELSE FindAt(c, raw, i, Without(raw, raw[i].k))

FindIn(c, r) == IF r.err # "none" THEN [err |-> r.err, c |-> c] ELSE FindFrom(c, r.d, 1)

FindNewTies(c) == FindIn(c, RawParameters(c))

\* the end of __init__: _check_ties, unless _find_new_ties raised
CheckFound(f) == IF f.err # "none" THEN f ELSE Checked(f.c)

\* __init__: the tie table given (or {}), _find_new_ties, _check_ties
Construct(scats, ts) == CheckFound(FindNewTies(Composite(scats, ts)))

\* add: the child is appended before the ties are searched and checked
AddScatterer(c, s) == Construct(Append(c.scatterers, s), c.ties)

\* the raw entries that no group lists
Untied(raw, all) == SelectSeq(raw, LAMBDA it : ~InSeq(all, it.k))

\* one entry for each group, under its display name, with the value of the
\* group's first member
Tied(raw, ts) == [g \in 1..Len(ts) |-> [k |-> ts[g].k, v |-> Get(raw, ts[g].v[1])]]

\* parameters.update(ties) over the untied raw entries
Collapse(r, ts, e) ==
    IF e # "none" THEN [err |-> e, d |-> <<>>]
    ELSE [err |-> "none", d |-> Update(Untied(r.d, AllTies(ts)), Tied(r.d, ts))]

ParametersOf(r, ts) == Collapse(r, ts, CheckRaw(r, ts))

Parameters(c) == ParametersOf(RawParameters(c), c.ties)

\* ------------------------------------------ composite: from_parameters
\* The primitive's from_parameters: a prior takes the supplied value or
\* its guess, a constant keeps its value unless overwrite is set.
PrimFromParameters(s, pars, ow) ==
    [s EXCEPT !.pars =
        [j \in 1..Len(s.pars) |->
            [k |-> s.pars[j].k,
             v |-> IF IsNumber(s.pars[j].v)
                   THEN IF ow /\ Has(pars, s.pars[j].k)
                        THEN Get(pars, s.pars[j].k) ELSE s.pars[j].v
                   ELSE IF Has(pars, s.pars[j].k)
                        THEN Get(pars, s.pars[j].k) ELSE Num(s.pars[j].v.v)]]]

\* first loop: a tie's display entry is copied to every member of its group
RECURSIVE Broadcast(_, _)
Broadcast(flat, ts) ==
    IF ts = <<>> THEN flat
    ELSE IF Has(flat, Head(ts).k)
    THEN Broadcast(Update(flat, [j \in 1..Len(Head(ts).v) |->
                      [k |-> Head(ts).v[j], v |-> Get(flat, Head(ts).k)]]), Tail(ts))
    ELSE Broadcast(flat, Tail(ts))

RECURSIVE Collect(_, _, _)

\* a key with a colon goes to child n = int(parts[0])
CollectAt(flat, i, coll, n) ==
    IF n < 0 THEN [err |-> "ValueError", coll |-> coll]
    ELSE IF n >= Len(coll) THEN [err |-> "IndexError", coll |-> coll]
    ELSE Collect(flat, i + 1,
            [coll EXCEPT ![n + 1] = Put(@, SplitTail(flat[i].k), flat[i].v)])

\* second loop: every key with a colon goes to the child its head names
Collect(flat, i, coll) ==
    IF i > Len(flat) THEN [err |-> "none", coll |-> coll]
    ELSE IF ~HasColon(flat[i].k) THEN Collect(flat, i + 1, coll)
    ELSE CollectAt(flat, i, coll, IntOf(SplitHead(flat[i].k)))

RECURSIVE FromParameters(_, _, _)

ChildFrom(s, pars, ow) ==
    IF s.kind = "prim"
    THEN [err |-> "none", new |-> PrimFromParameters(s, pars, ow), orig |-> s]
    ELSE FromParameters(s, pars, ow)

RECURSIVE KidsFrom(_, _, _, _)

KidsJoin(r, rest) ==
    [err |-> rest.err, new |-> <<r.new>> \o rest.new, orig |-> <<r.orig>> \o rest.orig]

\* one turn of the loop that rebuilds the children, r being child i rebuilt
KidsNext(scats, coll, ow, i, r) ==
    IF r.err # "none"
    THEN [err |-> r.err, new |-> <<>>,
          orig |-> <<r.orig>> \o SubSeq(scats, i + 1, Len(scats))]
    ELSE KidsJoin(r, KidsFrom(scats, coll, ow, i + 1))

\* the children are rebuilt in order; orig is the receiver's child list as
\* the calls leave it (a nested composite shares its tie table with its copy)
KidsFrom(scats, coll, ow, i) ==
    IF i > Len(scats) THEN [err |-> "none", new |-> <<>>, orig |-> <<>>]
    ELSE KidsNext(scats, coll, ow, i, ChildFrom(scats[i], coll[i], ow))

\* type(self)(**self_dict) hands the receiver's own tie table to the new
\* composite, whose construction may add to it
Rebuilt(kids, made) ==
    [err |-> made.err, new |-> made.c, orig |-> Composite(kids.orig, made.c.ties)]

FromKids(c, kids) ==
    IF kids.err # "none"
    THEN [err |-> kids.err, new |-> c, orig |-> [c EXCEPT !.scatterers = kids.orig]]
    ELSE Rebuilt(kids, Construct(kids.new, c.ties))

FromCollected(c, col, ow) ==
    IF col.err # "none" THEN [err |-> col.err, new |-> c, orig |-> c]
    ELSE FromKids(c, KidsFrom(c.scatterers, col.coll, ow, 1))

\* from_parameters(new_parameters, overwrite): new is the composite built,
\* orig the receiver afterwards
FromParameters(c, flat, ow) ==
    FromCollected(c, Collect(Broadcast(flat, c.ties), 1,
                             [i \in 1..Len(c.scatterers) |-> <<>>]), ow)

\* ------------------------------------------------ composite: geometry
\* in_domain for one query point, contains[k] being what the k-th child's
\* contains() reports: child 0 gives the start value, its contains() as an
\* int, and each later child
\* that contains the point writes its index
RECURSIVE InDomainFrom(_, _, _)
InDomainFrom(contains, k, ind) ==
    IF k > Len(contains) THEN ind
    ELSE InDomainFrom(contains, k + 1, IF contains[k] THEN k - 1 ELSE ind)

in_domain(contains) ==
    IF contains = <<>> THEN [err |-> "IndexError", val |-> 0]
    ELSE [err |-> "none", val |-> InDomainFrom(contains, 2, IF contains[1] THEN 1 ELSE 0)]

\* the arguments of translated and rotated: a scalar, a sequence of n
\* numbers, or None
Scalar == [kind |-> "scalar", len |-> 0]

Vector(n) == [kind |-> "vector", len |-> n]

Absent == [kind |-> "none", len |-> 0]

\* len(ensure_array(x) == 3): the comparison is elementwise, so this is the
\* length of the array ensure_array makes, and a scalar makes one element
EnsuredLen(x) == IF x.kind = "scalar" THEN 1 ELSE x.len

\* what the calls on the children and the arithmetic on their centers do
\* with the coordinates is theirs to decide: accepted says they go through
Children(accepted) ==
    IF accepted THEN [err |-> "none", returned |-> TRUE]
    ELSE [err |-> "ChildError", returned |-> FALSE]

Raise(e) == [err |-> e, returned |-> FALSE]

translated(coord1, coord2, coord3, accepted) ==
    IF coord2.kind = "none" /\ EnsuredLen(coord1) # 0 THEN Children(accepted)
    ELSE IF coord2.kind # "none" /\ coord3.kind # "none" THEN Children(accepted)
    ELSE Raise("NameError")

\* alpha, beta, gamma = ang1
Unpack(ang1, accepted) ==
    IF ang1.kind = "scalar" THEN Raise("TypeError")
    ELSE IF ang1.len # 3 THEN Raise("ValueError")
    ELSE Children(accepted)

rotated(ang1, ang2, ang3, accepted) ==
    IF ang2.kind = "none" /\ EnsuredLen(ang1) # 0 THEN Unpack(ang1, accepted)
    ELSE IF ang2.kind # "none" /\ ang3.kind # "none" THEN Children(accepted)
    ELSE Raise("NameError")

\* three numbers: one sequence of three, or three scalars
WellFormed(a) ==
    \/ a[1].kind = "vector" /\ a[1].len = 3 /\ a[2].kind = "none" /\ a[3].kind = "none"
    \/ a[1].kind = "scalar" /\ a[2].kind = "scalar" /\ a[3].kind = "scalar"

\* -------------------------------------------- fitting: names and values
\* Python's None where a name is expected
None == <<"None">>

NameN == <<"n">>

NameX == <<"x">>

NameAlpha == <<"a", "l", "p", "h", "a">>

DotReal == <<".", "r", "e", "a", "l">>

DotImag == <<".", "i", "m", "a", "g">>

Number(x) == [kind |-> "num", v |-> x]

\* re + 1.j * im
Complex(re, im) == [kind |-> "cnum", re |-> re, im |-> im]

\* a reference to the Parameter object with handle h
Par(h) == [kind |-> "par", h |-> h]

ComplexPar(name, re, im) == [kind |-> "cpx", name |-> name, re |-> re, im |-> im]

NoValue == [kind |-> "none"]

\* A Parameter object: a fixed parameter's guess is its limit; a free
\* parameter's limit is a range that nothing here reads.
Parameter(name, value, fixed) ==
    [name |-> name, guess |-> value, limit |-> value, fixed |-> fixed]

\* p in parameters: list membership is by identity or by ==, and two
\* Parameter objects are == when all their attributes agree
In(objs, list, h) == \E i \in 1..Len(list) : list[i] = h \/ objs[list[i]] = objs[h]

\* the dict that maps every name in S to v (lookups never depend on order)
RECURSIVE DictOf(_, _)
DictOf(S, v) ==
    IF S = {} THEN <<>>
    ELSE <<[k |-> CHOOSE k \in S : TRUE, v |-> v]>>
         \o DictOf(S \ {CHOOSE k \in S : TRUE}, v)

\* --------------------------------------------- fitting: Parametrization
\* p.name = name, unless name is None
Rename(st, h, name) == IF name # None THEN [st EXCEPT !.pool[h].name = name] ELSE st

\* a free parameter joins the list, a fixed one the table of fixed values
Place(st, h) ==
    IF ~st.pool[h].fixed THEN [st EXCEPT !.free = Append(@, h)]
    ELSE [st EXCEPT !.fixed = Put(@, st.pool[h].name, Number(st.pool[h].guess))]

\* add_par of Parametrization.__init__
AddPar(st, h, name) == Place(Rename(st, h, name), h)

AddItem(st, it) ==
    IF it.kind = "cpx"
    THEN AddPar(AddPar(st, it.re, it.name \o DotReal), it.im, it.name \o DotImag)
    ELSE IF it.kind = "par" THEN AddPar(st, it.h, None)
    ELSE st

RECURSIVE AddItems(_, _)
AddItems(st, items) ==
    IF items = <<>> THEN st ELSE AddItems(AddItem(st, Head(items)), Tail(items))

NewFit(objs) == [pool |-> objs, free |-> <<>>, fixed |-> <<>>, ties |-> <<>>]

\* Parametrization(make_scatterer, parameters)
Parametrization(objs, items) == AddItems(NewFit(objs), items)

\* the value make_from resolves for one argument of make_scatterer
Resolve(fixed, flat, arg) ==
    IF Has(flat, arg \o DotReal) /\ Has(flat, arg \o DotImag)
    THEN [err |-> "none",
          v |-> Complex(Get(flat, arg \o DotReal), Get(flat, arg \o DotImag))]
    ELSE IF Has(fixed, arg \o DotReal) /\ Has(flat, arg \o DotImag)
    THEN [err |-> "none",
          v |-> Complex(Get(fixed, arg \o DotReal), Get(flat, arg \o DotImag))]
    ELSE IF Has(flat, arg \o DotReal) /\ Has(fixed, arg \o DotImag)
    THEN [err |-> "none",
          v |-> Complex(Get(flat, arg \o DotReal), Get(fixed, arg \o DotImag))]
    ELSE IF Has(flat, arg) THEN [err |-> "none", v |-> Get(flat, arg)]
    ELSE [err |-> "KeyError", v |-> NoValue]

RECURSIVE MakeFrom(_, _, _, _)

MakeNext(fixed, flat, args, acc, r) ==
    IF r.err # "none" THEN [err |-> r.err, made |-> acc]
    ELSE MakeFrom(fixed, flat, Tail(args), Put(acc, Head(args), r.v))

\* Parametrization.make_from: made is what make_scatterer is called with
MakeFrom(fixed, flat, args, acc) ==
    IF args = <<>> THEN [err |-> "none", made |-> acc]
    ELSE MakeNext(fixed, flat, args, acc, Resolve(fixed, flat, Head(args)))

\* guess_pars of Parametrization.guess
GuessPars(objs, list) ==
    Update(<<>>, [i \in 1..Len(list) |->
                    [k |-> objs[list[i]].name, v |-> Number(objs[list[i]].guess)]])

\* ----------------------------------------- fitting: ParameterizedObject
\* commonprefix of the reversed names, reversed
RECURSIVE CommonSuffix(_, _)
CommonSuffix(a, b) ==
    IF a = <<>> \/ b = <<>> THEN <<>>
    ELSE IF a[Len(a)] # b[Len(b)] THEN <<>>
    ELSE CommonSuffix(SubSeq(a, 1, Len(a) - 1), SubSeq(b, 1, Len(b) - 1))
         \o <<a[Len(a)]>>

RECURSIVE Strip(_)
Strip(s) ==
    IF s = <<>> THEN s
    ELSE IF Head(s) \in {":", "_"} THEN Strip(Tail(s))
    ELSE IF s[Len(s)] \in {":", "_"} THEN Strip(SubSeq(s, 1, Len(s) - 1))
    ELSE s

tied_name(name1, name2) == Strip(CommonSuffix(name1, name2))

\* the branch of add_par for a parameter that is already in the list: the
\* name joins the handle's group, or a new group that starts with the
\* handle's name, and the group is put under the new display name
Retie(st, h, name, pname, new) ==
    [st EXCEPT !.ties = Put(IF Has(@, pname) /\ pname # new THEN Without(@, pname) ELSE @,
                            new,
                            Append(IF Has(@, pname) THEN Get(@, pname) ELSE <<pname>>, name)),
               !.pool[h].name = new]

\* the other branch, once p.name = name is done
Keep(st, h) == IF ~st.pool[h].fixed THEN [st EXCEPT !.free = Append(@, h)] ELSE st

\* add_par of ParameterizedObject.__init__
ObjAddPar(st, h, name) ==
    IF In(st.pool, st.free, h)
    THEN Retie(st, h, name, st.pool[h].name, tied_name(st.pool[h].name, name))
    ELSE Keep([st EXCEPT !.pool[h].name = name], h)

ObjAddItem(st, name, it) ==
    IF it.kind = "cpx"
    THEN ObjAddPar(ObjAddPar(st, it.re, name \o DotReal), it.im, name \o DotImag)
    ELSE IF it.kind = "par" THEN ObjAddPar(st, it.h, name)
    ELSE st

RECURSIVE ObjAddItems(_, _)
ObjAddItems(st, d) ==
    IF d = <<>> THEN st
    ELSE ObjAddItems(ObjAddItem(st, Head(d).k, Head(d).v), Tail(d))

\* ParameterizedObject(obj), d being obj.parameters
ParameterizedObject(objs, d) == ObjAddItems(NewFit(objs), d)

\* for groupname, group in self.ties.iteritems(): if name in group: ...
RECURSIVE GroupName(_, _)
GroupName(ts, name) ==
    IF ts = <<>> THEN name
    ELSE GroupName(Tail(ts), IF InSeq(Head(ts).v, name) THEN Head(ts).k ELSE name)

get_val(objs, flat, h, name) ==
    IF objs[h].fixed THEN [err |-> "none", v |-> Number(objs[h].limit)]
    ELSE IF Has(flat, name) THEN [err |-> "none", v |-> Get(flat, name)]
    ELSE [err |-> "KeyError", v |-> NoValue]

\* get_val(par.real, ...) + 1j * get_val(par.imag, ...)
Combine(a, b) ==
    IF a.err # "none" THEN a
    ELSE IF b.err # "none" THEN b
    ELSE [err |-> "none", v |-> Complex(a.v, b.v)]

ParVal(objs, flat, it, name) ==
    IF it.kind = "cpx"
    THEN Combine(get_val(objs, flat, it.re, name \o DotReal),
                 get_val(objs, flat, it.im, name \o DotImag))
    ELSE IF it.kind = "par" THEN get_val(objs, flat, it.h, name)
    ELSE [err |-> "none", v |-> it]

\* the value goes to every member of the name's group, or to the name
Spread(ts, acc, name, v) ==
    IF Has(ts, name)
    THEN Update(acc, [j \in 1..Len(Get(ts, name)) |-> [k |-> Get(ts, name)[j], v |-> v]])
    ELSE Put(acc, name, v)

RECURSIVE ObjPars(_, _, _, _, _)

ObjParsNext(objs, ts, d, flat, acc, name, r) ==
    IF r.err # "none" THEN [err |-> r.err, made |-> acc]
    ELSE ObjPars(objs, ts, Tail(d), flat, Spread(ts, acc, name, r.v))

ObjParsAt(objs, ts, d, flat, acc, name) ==
    ObjParsNext(objs, ts, d, flat, acc, name, ParVal(objs, flat, Head(d).v, name))

\* the loop of ParameterizedObject.make_from that fills obj_pars
ObjPars(objs, ts, d, flat, acc) ==
    IF d = <<>> THEN [err |-> "none", made |-> acc]
    ELSE ObjParsAt(objs, ts, d, flat, acc, GroupName(ts, Head(d).k))

\* obj.from_parameters(obj_pars) of the wrapped object: a slot that holds
\* a Parameter takes the value supplied under its name or else the
\* parameter's guess, a slot that holds a number keeps it
ObjFromParameters(objs, d, r) ==
    IF r.err # "none" THEN r
    ELSE [err |-> "none",
          made |-> [j \in 1..Len(d) |->
                      [k |-> d[j].k,
                       v |-> IF d[j].v.kind = "num" THEN d[j].v
                             ELSE IF Has(r.made, d[j].k) THEN Get(r.made, d[j].k)
                             ELSE IF d[j].v.kind = "par" THEN Number(objs[d[j].v.h].guess)
                             ELSE Complex(Number(objs[d[j].v.re].guess),
                                          Number(objs[d[j].v.im].guess))]]]

\* ParameterizedObject.make_from: made is the object that is built
ObjMakeFrom(objs, ts, d, flat) ==
    ObjFromParameters(objs, d, ObjPars(objs, ts, d, flat, <<>>))

\* pars of ParameterizedObject.guess: guesses in place of the parameters,
\* the two halves of a ComplexParameter under two more keys
RECURSIVE ObjGuessPars(_, _, _)
ObjGuessPars(objs, d, acc) ==
    IF d = <<>> THEN acc
    ELSE IF Head(d).v.kind = "cpx"
    THEN ObjGuessPars(objs, Tail(d),
            Put(Put(acc, Head(d).k \o DotReal, Number(objs[Head(d).v.re].guess)),
                Head(d).k \o DotImag, Number(objs[Head(d).v.im].guess)))
    ELSE IF Head(d).v.kind = "par"
    THEN ObjGuessPars(objs, Tail(d), Put(acc, Head(d).k, Number(objs[Head(d).v.h].guess)))
    ELSE ObjGuessPars(objs, Tail(d), acc)

\* --------------------------------------------------- fitting: the Model
\* alpha.name = 'alpha' when alpha is a Parameter without a name
NameAlphaIn(objs, a) ==
    IF a.kind = "par" /\ objs[a.h].name = None
    THEN [objs EXCEPT ![a.h].name = NameAlpha] ELSE objs

\* self.parameters = self.scatterer.parameters, and the append to it
ModelParameters(list, a) == IF a.kind = "par" THEN Append(list, a.h) ELSE list

get_alpha(a, pars) ==
    IF pars.kind = "dict" /\ Has(pars.d, NameAlpha) THEN Get(pars.d, NameAlpha)
    ELSE IF a.kind = "none" THEN Number(1)
    ELSE a

\* ------------------------------------------------- the composite in use
VARIABLES comp, derived, op, raised, view, tieCalls, explicit,
          pool, given, free, fixedParams, fitTies, alpha, models,
          fitOp, fitArg, fitOut,
          geoOp, geoArgs, geoOut

compVars == <<comp, derived, op, raised, view, tieCalls, explicit>>

fitVars == <<pool, given, free, fixedParams, fitTies, alpha, models,
             fitOp, fitArg, fitOut>>

geoVars == <<geoOp, geoArgs, geoOut>>

vars == <<compVars, fitVars, geoVars>>

NoComposite == Composite(<<>>, <<>>)

Max(a, b) == IF a > b THEN a ELSE b

RECURSIVE Depth(_)
Depth(c) ==
    IF c.kind = "prim" THEN 0
    ELSE IF c.scatterers = <<>> THEN 1
    ELSE Max(1 + Depth(Head(c.scatterers)),
             Depth([c EXCEPT !.scatterers = Tail(c.scatterers)]))

\* lists of at most two primitives, as handed to the constructor
InitLists == {<<>>} \cup {<<s>> : s \in Prims} \cup {<<s, t>> : s \in Prims, t \in Prims}

\* the ties argument of the constructor: None, {'r': ['0:r', '1:r']}, and
\* two tables whose first group is faulty, {'x': ['9:r'], 'r': [...]} and
\* {'x': [], 'r': [...]}
KeyX == <<"x">>

GroupR == [k |-> KeyR, v |-> <<Prefixed(0, KeyR), Prefixed(1, KeyR)>>]

InitTies == {<<>>,
             <<GroupR>>,
             <<[k |-> KeyX, v |-> <<Prefixed(9, KeyR)>>], GroupR>>,
             <<[k |-> KeyX, v |-> <<>>], GroupR>>}

\* the names add_tie is called with: raw names, display names, and one
\* name that no child provides
Dangling == Prefixed(9, KeyR)

NewNames(c) == Keys(RawParameters(c).d) \cup {Dangling}

OldNames(c) == NewNames(c) \cup Keys(c.ties)

RECURSIVE CountPrims(_)
CountPrims(c) ==
    IF c.kind = "prim" THEN 1
    ELSE IF c.scatterers = <<>> THEN 0
    ELSE CountPrims(Head(c.scatterers))
         + CountPrims([c EXCEPT !.scatterers = Tail(c.scatterers)])

\* the pairs of names a tie table ties by hand
Pairs(ts) == {{ts[g].v[1], ts[g].v[2]} : g \in {h \in 1..Len(ts) : Len(ts[h].v) = 2}}

\* A constructor call that raises leaves no composite behind: such a state
\* records what the constructor's check raised and nothing follows it.
Built == ~(op = "init" /\ raised # "none")

\* no fit object is in use
NoFit ==
    /\ pool = <<>>
    /\ given = NoValue
    /\ free = <<>>
    /\ fixedParams = <<>>
    /\ fitTies = <<>>
    /\ alpha = NoValue
    /\ models = 0
    /\ fitOp = "none"
    /\ fitArg = NoValue
    /\ fitOut = NoValue

\* no geometry call has been made
NoGeometry ==
    /\ geoOp = "none"
    /\ geoArgs = <<>>
    /\ geoOut = NoValue

Init ==
    /\ NoFit
    /\ NoGeometry
    /\ \E l \in InitLists, ts \in InitTies :
          /\ \E r \in {Construct(l, ts)} :
                /\ comp = r.c
                /\ raised = r.err
          /\ explicit = Pairs(ts)
    /\ derived = NoComposite
    /\ op = "init"
    /\ view = <<>>
    /\ tieCalls = 0

Add(s) ==
    /\ Built
    /\ Len(comp.scatterers) < MaxKids
    /\ CountPrims(comp) < MaxPrims
    /\ \E r \in {AddScatterer(comp, s)} :
          /\ comp' = r.c
          /\ raised' = r.err
    /\ op' = "add"
    /\ derived' = NoComposite
    /\ view' = <<>>
    /\ UNCHANGED <<tieCalls, explicit, fitVars, geoVars>>

CallAddTie(old, new) ==
    /\ Built
    /\ tieCalls < MaxTieCalls
    /\ old # new
    /\ \E r \in {AddTie(comp, old, new)} :
          /\ comp' = r.c
          /\ raised' = r.err
    /\ op' = "add_tie"
    /\ tieCalls' = tieCalls + 1
    /\ explicit' = explicit \cup {{old, new}}
    /\ derived' = NoComposite
    /\ view' = <<>>
    /\ UNCHANGED <<fitVars, geoVars>>

ReadParameters ==
    /\ Built
    /\ \E r \in {Parameters(comp)} :
          /\ view' = r.d
          /\ raised' = r.err
    /\ op' = "parameters"
    /\ derived' = NoComposite
    /\ UNCHANGED <<comp, tieCalls, explicit, fitVars, geoVars>>

\* Scatterers([comp]): the composite becomes the only child of a new one
Nest ==
    /\ Built
    /\ Depth(comp) < MaxDepth
    /\ comp.scatterers # <<>>
    /\ \E r \in {Construct(<<comp>>, <<>>)} :
          /\ r.err = "none"
          /\ comp' = r.c
    /\ raised' = "none"
    /\ op' = "nest"
    /\ explicit' = {}
    /\ derived' = NoComposite
    /\ view' = <<>>
    /\ UNCHANGED <<tieCalls, fitVars, geoVars>>

\* comp.from_parameters(comp.parameters)
RoundTrip ==
    /\ Built
    /\ \E p \in {Parameters(comp)} :
          /\ p.err = "none"
          /\ view' = p.d
          /\ \E f \in {FromParameters(comp, p.d, FALSE)} :
                /\ comp' = f.orig
                /\ derived' = IF f.err = "none" THEN f.new ELSE NoComposite
                /\ raised' = f.err
    /\ op' = "from_parameters"
    /\ UNCHANGED <<tieCalls, explicit, fitVars, geoVars>>

\* a value no child stores
NewRadius == 2

\* a flat map that supplies a number under every key of the parameters p,
\* or under none
Supply(p, all) ==
    IF all THEN [j \in 1..Len(p) |-> [k |-> p[j].k, v |-> Num(NewRadius)]]
    ELSE <<>>

\* comp.from_parameters(flat, overwrite), flat holding numbers
CallFromParameters(all, ow) ==
    /\ Built
    /\ \E p \in {Parameters(comp)} :
          /\ p.err = "none"
          /\ view' = Supply(p.d, all)
          /\ \E f \in {FromParameters(comp, Supply(p.d, all), ow)} :
                /\ comp' = f.orig
                /\ derived' = IF f.err = "none" THEN f.new ELSE NoComposite
                /\ raised' = f.err
    /\ op' = IF ow THEN "from_parameters_overwrite" ELSE "from_parameters_keep"
    /\ UNCHANGED <<tieCalls, explicit, fitVars, geoVars>>

\* comp.translated(...): copy(self) is shallow, so the copy holds the
\* receiver's tie table; the children are spheres and composites of spheres,
\* whose quantities a translation leaves alone
CallTranslatedCopy ==
    /\ Built
    /\ comp.scatterers # <<>>
    /\ op # "translated"
    /\ derived' = comp
    /\ raised' = "none"
    /\ op' = "translated"
    /\ view' = <<>>
    /\ UNCHANGED <<comp, tieCalls, explicit, fitVars, geoVars>>

\* a derived composite exists: the last call returned one
HasDerived ==
    /\ op \in {"from_parameters", "from_parameters_keep",
               "from_parameters_overwrite", "translated"}
    /\ raised = "none"

\* derived.add_tie(old, new): the table it edits is the one object that
\* comp holds as well
CallAddTieDerived(old, new) ==
    /\ HasDerived
    /\ tieCalls < MaxTieCalls
    /\ old # new
    /\ \E r \in {AddTie(derived, old, new)} :
          /\ derived' = r.c
          /\ comp' = [comp EXCEPT !.ties = r.c.ties]
          /\ raised' = r.err
    /\ op' = "derived_add_tie"
    /\ tieCalls' = tieCalls + 1
    /\ explicit' = explicit \cup {{old, new}}
    /\ view' = <<>>
    /\ UNCHANGED <<fitVars, geoVars>>

Next ==
    \/ \E s \in Prims : Add(s)
    \/ \E old \in OldNames(comp), new \in NewNames(comp) : CallAddTie(old, new)
    \/ ReadParameters
    \/ Nest
    \/ RoundTrip
    \/ \E all \in BOOLEAN, ow \in BOOLEAN : CallFromParameters(all, ow)
    \/ CallTranslatedCopy
    \/ \E old \in OldNames(derived), new \in NewNames(derived) :
          CallAddTieDerived(old, new)

Spec == Init /\ [][Next]_vars

\* ------------------------------------------------ the fit objects in use
MaxHandles == 3

MaxItems == 2

MaxModels == 2

FlatValue == 5

AlphaValue == 7

ObjValue == 9

\* the handle of the Parameter that is given to Model as alpha
AlphaHandle == MaxHandles + 1

\* the names the parameters are created with, for a Parametrization
GivenName(h) == IF h = 1 THEN NameN ELSE IF h = 2 THEN KeyR ELSE NameX

\* the Parameter objects: handle h guesses h, flags says which are fixed,
\* and the parameters of a wrapped object have no name yet
Objects(named, flags) ==
    [h \in 1..AlphaHandle |->
        Parameter(IF named /\ h # AlphaHandle THEN GivenName(h) ELSE None, h, flags[h])]

\* what the parameters list of a Parametrization is made of
Items == {Par(h) : h \in 1..MaxHandles} \cup {ComplexPar(NameN, 1, MaxHandles)}

RECURSIVE ListsOf(_, _)
ListsOf(S, n) ==
    IF n = 0 THEN {<<>>}
    ELSE ListsOf(S, n - 1) \cup {Append(l, x) : l \in ListsOf(S, n - 1), x \in S}

\* make_scatterer(n, r)
Args == <<NameN, KeyR>>

\* what the slots of a wrapped object hold
Slots == {Number(ObjValue)} \cup {Par(h) : h \in 1..2} \cup {ComplexPar(None, 1, MaxHandles)}

\* the raw names of the wrapped objects
RawNames == {<<NameN, KeyR>>,
             <<Prefixed(0, KeyR), Prefixed(1, KeyR), Prefixed(2, KeyR), Prefixed(3, KeyR)>>}

\* obj.parameters for every way of filling the slots of an object
ObjDicts == UNION {{[j \in 1..Len(ns) |-> [k |-> ns[j], v |-> f[j]]] :
                        f \in [1..Len(ns) -> Slots]} : ns \in RawNames}

Givens ==
    {[kind |-> "Parametrization", args |-> Args, items |-> l, objs |-> Objects(TRUE, fl)] :
        l \in ListsOf(Items, MaxItems) \ {<<>>}, fl \in [1..AlphaHandle -> BOOLEAN]}
    \cup
    {[kind |-> "ParameterizedObject", args |-> <<>>, items |-> d, objs |-> Objects(FALSE, fl)] :
        d \in ObjDicts, fl \in [1..AlphaHandle -> BOOLEAN]}

\* the constructor call that g describes
Constructed(g) ==
    IF g.kind = "Parametrization" THEN Parametrization(g.objs, g.items)
    ELSE ParameterizedObject(g.objs, g.items)

Idle(v) == [err |-> "none", made |-> <<>>, val |-> v]

Outcome(r) == [err |-> r.err, made |-> r.made, val |-> NoValue]

InitFit ==
    /\ comp = NoComposite
    /\ raised = "none"
    /\ derived = NoComposite
    /\ op = "init"
    /\ view = <<>>
    /\ tieCalls = 0
    /\ explicit = {}
    /\ NoGeometry
    /\ \E g \in Givens :
          /\ given = g
          /\ \E st \in {Constructed(g)} :
                /\ pool = st.pool
                /\ free = st.free
                /\ fixedParams = st.fixed
                /\ fitTies = st.ties
    /\ alpha = NoValue
    /\ models = 0
    /\ fitOp = "init"
    /\ fitArg = NoValue
    /\ fitOut = Idle(NoValue)

FreeNames == {pool[free[i]].name : i \in 1..Len(free)}

\* make_from(flat): flat has an entry for every free parameter, and for
\* the fixed names in extra
CallMakeFrom(extra) ==
    /\ \E flat \in {DictOf(FreeNames \cup extra, Number(FlatValue))} :
          /\ fitArg' = [kind |-> "dict", d |-> flat]
          /\ fitOut' = Outcome(
                IF given.kind = "Parametrization"
                THEN MakeFrom(fixedParams, flat, given.args, <<>>)
                ELSE ObjMakeFrom(pool, fitTies, given.items, flat))
    /\ fitOp' = "make_from"
    /\ UNCHANGED <<pool, given, free, fixedParams, fitTies, alpha, models>>
    /\ UNCHANGED <<compVars, geoVars>>

\* the guess property
CallGuess ==
    /\ fitOut' = Outcome(
          IF given.kind = "Parametrization"
          THEN MakeFrom(fixedParams, GuessPars(pool, free), given.args, <<>>)
          ELSE ObjMakeFrom(pool, fitTies, given.items,
                           ObjGuessPars(pool, given.items, given.items)))
    /\ fitOp' = "guess"
    /\ fitArg' = NoValue
    /\ UNCHANGED <<pool, given, free, fixedParams, fitTies, alpha, models>>
    /\ UNCHANGED <<compVars, geoVars>>

Alphas == {NoValue, Number(AlphaValue), Par(AlphaHandle)}

\* Model(scatterer, theory, alpha = a); the model's parameters is the
\* scatterer's own list
BuildModel(a) ==
    /\ models < MaxModels
    /\ alpha' = a
    /\ pool' = NameAlphaIn(pool, a)
    /\ free' = ModelParameters(free, a)
    /\ models' = models + 1
    /\ fitOp' = "Model"
    /\ fitArg' = NoValue
    /\ fitOut' = Idle(NoValue)
    /\ UNCHANGED <<given, fixedParams, fitTies>>
    /\ UNCHANGED <<compVars, geoVars>>

AlphaArgs == {NoValue,
              [kind |-> "dict", d |-> <<>>],
              [kind |-> "dict", d |-> <<[k |-> NameAlpha, v |-> Number(FlatValue)]>>]}

CallGetAlpha(pars) ==
    /\ models > 0
    /\ fitOp' = "get_alpha"
    /\ fitArg' = pars
    /\ fitOut' = Idle(get_alpha(alpha, pars))
    /\ UNCHANGED <<pool, given, free, fixedParams, fitTies, alpha, models>>
    /\ UNCHANGED <<compVars, geoVars>>

NextFit ==
    \/ \E extra \in SUBSET Keys(fixedParams) : CallMakeFrom(extra)
    \/ CallGuess
    \/ \E a \in Alphas : BuildModel(a)
    \/ \E pars \in AlphaArgs : CallGetAlpha(pars)

SpecFit == InitFit /\ [][NextFit]_vars

\* ------------------------------------------------ the cost closure in use
\* the first invocation made on the Model now in use, with what it returned
Seen(log, m, flat, out) ==
    IF log # <<>> /\ log[1].m = m
    THEN <<[log[1] EXCEPT !.others = @ \/ log[1].k # flat]>>
    ELSE <<[m |-> m, k |-> flat, v |-> out, others |-> FALSE]>>

\* the closure with a rebuild of the Model's parameters in every invocation
CallCostRebuilding(x) ==
    /\ models > 0
    /\ \E flat \in {DictOf(FreeNames, Number(x))} :
          /\ fitArg' = [kind |-> "dict", d |-> flat, left |-> flat]
          /\ \E r \in {IF given.kind = "Parametrization"
                      THEN MakeFrom(fixedParams, flat, given.args, <<>>)
                      ELSE ObjMakeFrom(pool, fitTies, given.items, flat)} :
                /\ fitOut' = [err |-> r.err, made |-> r.made,
                              val |-> get_alpha(alpha, [kind |-> "dict", d |-> flat])]
                /\ view' = Seen(view, models, flat, fitOut')
    /\ fitOp' = "cost"
    /\ free' = ModelParameters(free, alpha)
    /\ UNCHANGED <<pool, given, fixedParams, fitTies, alpha, models>>
    /\ UNCHANGED <<comp, derived, op, raised, tieCalls, explicit, geoVars>>

\* cost(pars), the closure cost_func returns: flat is pars, left is pars
\* as the invocation leaves it, and view keeps the first invocation made
\* on this Model. What make_from builds and what get_alpha returns go to
\* the theory, and the residual of a deterministic theory is a function of
\* the two.
CallCost(x) ==
    /\ models > 0
    /\ \E flat \in {DictOf(FreeNames, Number(x))} :
          /\ fitArg' = [kind |-> "dict", d |-> flat, left |-> flat]
          /\ \E r \in {IF given.kind = "Parametrization"
                      THEN MakeFrom(fixedParams, flat, given.args, <<>>)
                      ELSE ObjMakeFrom(pool, fitTies, given.items, flat)} :
                /\ fitOut' = [err |-> r.err, made |-> r.made,
                              val |-> get_alpha(alpha, [kind |-> "dict", d |-> flat])]
                /\ view' = Seen(view, models, flat, fitOut')
    /\ fitOp' = "cost"
    /\ UNCHANGED <<pool, given, free, fixedParams, fitTies, alpha, models>>
    /\ UNCHANGED <<comp, derived, op, raised, tieCalls, explicit, geoVars>>

\* an optimizer at work: Models are built and their closures invoked
NextCost ==
    \/ \E a \in Alphas : BuildModel(a)
    \/ \E x \in {FlatValue, AlphaValue} : CallCost(x)

SpecCost == InitFit /\ [][NextCost]_vars

\* --------------------------------------------------- geometry in use
MaxVector == 4

\* coord1 is a scalar or a sequence, coord2 and coord3 a scalar or None
Coords == ({Scalar} \cup {Vector(n) : n \in 0..MaxVector})
              \X {Absent, Scalar} \X {Absent, Scalar}

InitGeom ==
    /\ \E l \in InitLists :
          \E r \in {Construct(l, <<>>)} :
             /\ comp = r.c
             /\ raised = r.err
    /\ derived = NoComposite
    /\ op = "init"
    /\ view = <<>>
    /\ tieCalls = 0
    /\ explicit = {}
    /\ NoFit
    /\ NoGeometry

\* in_domain(point), each child reporting whether it contains the point
CallInDomain(contains) ==
    /\ geoOp' = "in_domain"
    /\ geoArgs' = contains
    /\ geoOut' = [err |-> in_domain(contains).err, returned |-> FALSE,
                  val |-> in_domain(contains).val]
    /\ UNCHANGED <<compVars, fitVars>>

\* the children go through with three numbers; with anything else each of
\* them may go through or raise, and a composite without children has none
Accepting(a, childless) == IF WellFormed(a) \/ childless THEN {TRUE} ELSE BOOLEAN

CallTranslated(a, accepted) ==
    /\ geoOp' = "translated"
    /\ geoArgs' = a
    /\ \E r \in {translated(a[1], a[2], a[3], accepted)} :
          geoOut' = [err |-> r.err, returned |-> r.returned, val |-> 0]
    /\ UNCHANGED <<compVars, fitVars>>

CallRotated(a, accepted) ==
    /\ geoOp' = "rotated"
    /\ geoArgs' = a
    /\ \E r \in {rotated(a[1], a[2], a[3], accepted)} :
          geoOut' = [err |-> r.err, returned |-> r.returned, val |-> 0]
    /\ UNCHANGED <<compVars, fitVars>>

NextGeom ==
    \/ \E contains \in [1..Len(comp.scatterers) -> BOOLEAN] : CallInDomain(contains)
    \/ \E a \in Coords :
          \E accepted \in Accepting(a, comp.scatterers = <<>>) : CallTranslated(a, accepted)
    \/ \E a \in Coords :
          \E accepted \in Accepting(a, FALSE) : CallRotated(a, accepted)

SpecGeom == InitGeom /\ [][NextGeom]_vars

\* ------------------------------------------------------------ claims
RawOf(c) == RawParameters(c).d

GroupMissing(raw, names) == \E j \in 1..Len(names) : ~Has(raw, names[j])

GroupDisagrees(raw, names) ==
    \E j \in 1..Len(names) :
        /\ Has(raw, names[j])
        /\ Has(raw, names[1])
        /\ ~Eq(Get(raw, names[j]), Get(raw, names[1]))

\* every tie group of c, and of the composites nested in c, lists only
\* present names whose values agree
RECURSIVE Sound(_)
Sound(c) ==
    \/ c.kind = "prim"
    \/ /\ \A i \in 1..Len(c.scatterers) : Sound(c.scatterers[i])
       /\ \A g \in 1..Len(c.ties) :
             /\ c.ties[g].v # <<>>
             /\ ~GroupMissing(RawOf(c), c.ties[g].v)
             /\ ~GroupDisagrees(RawOf(c), c.ties[g].v)

\* some tie group of c, or of a composite nested in c, has a member whose
\* value differs from the value of the group's first member
RECURSIVE SomeGroupDisagrees(_)
SomeGroupDisagrees(c) ==
    /\ c.kind = "comp"
    /\ \/ \E i \in 1..Len(c.scatterers) : SomeGroupDisagrees(c.scatterers[i])
       \/ /\ \A i \in 1..Len(c.scatterers) : Sound(c.scatterers[i])
          /\ \E g \in 1..Len(c.ties) : GroupDisagrees(RawOf(c), c.ties[g].v)

\* the first fault the check meets, reading the children in order and then
\* the tie table in order, is a disagreement in a group whose members are
\* all present
RECURSIVE DisagreementMetFirst(_)
DisagreementMetFirst(c) ==
    /\ c.kind = "comp"
    /\ \/ \E i \in 1..Len(c.scatterers) :
             /\ DisagreementMetFirst(c.scatterers[i])
             /\ \A j \in 1..(i - 1) : Sound(c.scatterers[j])
       \/ /\ \A i \in 1..Len(c.scatterers) : Sound(c.scatterers[i])
          /\ \E g \in 1..Len(c.ties) :
                /\ GroupDisagrees(RawOf(c), c.ties[g].v)
                /\ ~GroupMissing(RawOf(c), c.ties[g].v)
                /\ \A g2 \in 1..(g - 1) :
                      /\ c.ties[g2].v # <<>>
                      /\ ~GroupMissing(RawOf(c), c.ties[g2].v)
                      /\ ~GroupDisagrees(RawOf(c), c.ties[g2].v)

CheckRan == op \in {"init", "add", "add_tie", "parameters"}

\* C1 (as stated): the consistency check run by construction, add, add_tie
\* and a read of parameters raises InconsistentTieValue if and only if some
\* tie group has a member whose value differs from its first member's
\* (read for tables without an empty group, where the check can index the
\* first member).
C1_InconsistentIffDisagree ==
    (CheckRan /\ raised # "IndexError")
        => (raised = "InconsistentTieValue" <=> SomeGroupDisagrees(comp))

\* C1 (amended): the check raises InconsistentTieValue if and only if the
\* first faulty group it meets, in table order, is one whose members are all
\* present and disagree; a group that lists a missing name (or is empty) and
\* is met earlier makes the check raise UnknownTieMember (or IndexError)
\* instead.
C1_InconsistentIffDisagreementFirst ==
    CheckRan => (raised = "InconsistentTieValue" <=> DisagreementMetFirst(comp))

\* C1 witness: add_tie has just raised InconsistentTieValue on a table that
\* also holds a group the check passed.
C1_Witness ==
    /\ op = "add_tie"
    /\ raised = "InconsistentTieValue"
    /\ Len(comp.ties) = 2
    /\ ~GroupDisagrees(RawOf(comp), comp.ties[1].v)

\* Python's dict equality: the same keys, and equal values under each
SameDict(a, b) ==
    /\ Keys(a) = Keys(b)
    /\ \A k \in Keys(a) : Eq(Get(a, k), Get(b, k))

\* C2: c.from_parameters(c.parameters) succeeds and its parameters equal
\* c.parameters (same keys, same values), for every composite c.
C2_RoundTrip ==
    op = "from_parameters"
        => /\ raised = "none"
           /\ Parameters(derived).err = "none"
           /\ SameDict(Parameters(derived).d, view)

\* the parameters entries that carry raw entry x: the display names of the
\* groups that list x, or x itself when no group lists it
EntryKeys(c, x) ==
    IF InSeq(AllTies(c.ties), x)
    THEN {c.ties[g].k : g \in {h \in 1..Len(c.ties) : InSeq(c.ties[h].v, x)}}
    ELSE {x}

SameHandle(c, x, y) ==
    Is(Get(RawOf(c), x), Get(RawOf(c), y)) /\ ~IsNumber(Get(RawOf(c), x))

RECURSIVE Grow(_, _, _)
Grow(c, S, n) ==
    IF n = 0 THEN S
    ELSE Grow(c, S \cup {y \in Keys(RawOf(c)) :
                           \E x \in S : SameHandle(c, x, y) \/ {x, y} \in explicit},
              n - 1)

\* x and y are joined by a chain of shared handles and explicit ties
Linked(c, x, y) == y \in Grow(c, {x}, Len(RawOf(c)))

\* C3: after construction and after every add, two raw entries are collapsed
\* into one parameters entry exactly when they share a handle or were
\* explicitly tied, so that parameters has one entry for each class of
\* linked raw entries.
C3_CollapsedIffLinked ==
    (op \in {"init", "add", "nest"} /\ raised = "none")
        => /\ \A x \in Keys(RawOf(comp)), y \in Keys(RawOf(comp)) :
                 x # y => ((EntryKeys(comp, x) \cap EntryKeys(comp, y) # {})
                              <=> Linked(comp, x, y))
           /\ Len(Parameters(comp).d)
                 = Cardinality({Grow(comp, {x}, Len(RawOf(comp))) : x \in Keys(RawOf(comp))})


\* the value get_alpha is specified to return
AmplitudeOf(a, pars) ==
    IF pars.kind = "dict" /\ Has(pars.d, NameAlpha) THEN Get(pars.d, NameAlpha)
    ELSE IF a.kind = "par"
    THEN Number(IF pool[a.h].fixed THEN pool[a.h].limit ELSE pool[a.h].guess)
    ELSE IF a.kind = "num" THEN a
    ELSE Number(1)

\* C4: get_alpha(flat) returns flat['alpha'] when the key is there;
\* otherwise the guess of a free amplitude Parameter, otherwise the
\* amplitude's fixed value, and 1.0 when no amplitude was configured.
C4_GetAlpha == fitOp = "get_alpha" => fitOut.val = AmplitudeOf(alpha, fitArg)

\* C5: the parameters of a Model are the scatterer's free list, followed by
\* the amplitude if and only if the amplitude is a free Parameter; no fixed
\* parameter is in the model's free vector.
C5_ModelParameters ==
    (fitOp = "Model" /\ models = 1)
        => /\ free = Constructed(given).free
                     \o (IF alpha.kind = "par" /\ ~pool[alpha.h].fixed
                         THEN <<alpha.h>> ELSE <<>>)
           /\ \A i \in 1..Len(free) : ~pool[free[i]].fixed

\* the index of the first child that contains the point, 0 when none does
FirstContaining(contains) ==
    IF \E k \in 1..Len(contains) : contains[k]
    THEN (CHOOSE k \in 1..Len(contains) :
             contains[k] /\ \A j \in 1..(k - 1) : ~contains[j]) - 1
    ELSE 0

\* C6: in_domain of a composite with at least one child reports the index
\* of the first child, in list order, that contains the point: 0 for a
\* point only child 0 contains, i for a point children i < j contain, and 0
\* for a point no child of index >= 1 contains.
C6_InDomainFirst ==
    (geoOp = "in_domain" /\ geoArgs # <<>>)
        => /\ geoOut.err = "none"
           /\ geoOut.val = FirstContaining(geoArgs)

\* a free or a fixed parameter has this name
Known(name) == name \in FreeNames \/ Has(fixedParams, name)

\* the parameters given to the Parametrization supply this argument
Supplied(arg) == Known(arg) \/ (Known(arg \o DotReal) /\ Known(arg \o DotImag))

AllSupplied == \A i \in 1..Len(given.args) : Supplied(given.args[i])

\* C7: make_from(flat) of a Parametrization, for a flat map that supplies
\* every free parameter, succeeds and hands the construction function the
\* stored value of every fixed parameter (a plain scalar, one half or both
\* halves of a ComplexParameter), whether or not flat has an entry under the
\* fixed parameter's name.
C7_FixedFromStore ==
    (fitOp = "make_from" /\ given.kind = "Parametrization" /\ AllSupplied)
        => /\ fitOut.err = "none"
           /\ \A i \in 1..Len(given.args) :
                 /\ Has(fitOut.made, given.args[i])
                 /\ (Has(fixedParams, given.args[i] \o DotReal)
                        /\ Known(given.args[i] \o DotImag))
                       => /\ Get(fitOut.made, given.args[i]).kind = "cnum"
                          /\ Get(fitOut.made, given.args[i]).re
                                = Get(fixedParams, given.args[i] \o DotReal)
                 /\ (Has(fixedParams, given.args[i] \o DotImag)
                        /\ Known(given.args[i] \o DotReal))
                       => /\ Get(fitOut.made, given.args[i]).kind = "cnum"
                          /\ Get(fitOut.made, given.args[i]).im
                                = Get(fixedParams, given.args[i] \o DotImag)
                 /\ (Has(fixedParams, given.args[i])
                        /\ ~(Known(given.args[i] \o DotReal)
                              /\ Known(given.args[i] \o DotImag)))
                       => Get(fitOut.made, given.args[i])
                             = Get(fixedParams, given.args[i])

\* C8: after the construction of a Parametrization or a
\* ParameterizedObject the free list holds each Parameter handle at most
\* once, and no two of its entries have the same name.
C8_FreeListUnique ==
    fitOp = "init"
        => \A i \in 1..Len(free), j \in 1..Len(free) :
              i # j => /\ free[i] # free[j]
                       /\ pool[free[i]].name # pool[free[j]].name

\* the slot of the built object that parameter h occupies holds h's guess
HoldsGuess(v, h) == pool[h].fixed \/ v = Number(pool[h].guess)

\* the object built by a Parametrization's guess: every argument that a
\* free parameter supplies is that parameter's guess
ArgsHoldGuesses ==
    \A i \in 1..Len(free), j \in 1..Len(given.args) :
        /\ pool[free[i]].name = given.args[j]
              => Get(fitOut.made, given.args[j]) = Number(pool[free[i]].guess)
        /\ pool[free[i]].name = given.args[j] \o DotReal
              => Get(fitOut.made, given.args[j]).re = Number(pool[free[i]].guess)
        /\ pool[free[i]].name = given.args[j] \o DotImag
              => Get(fitOut.made, given.args[j]).im = Number(pool[free[i]].guess)

\* the object built by a ParameterizedObject's guess: every slot of the
\* wrapped object that holds a free parameter holds its guess
SlotsHoldGuesses ==
    \A j \in 1..Len(given.items) :
        /\ given.items[j].v.kind = "par"
              => HoldsGuess(fitOut.made[j].v, given.items[j].v.h)
        /\ given.items[j].v.kind = "cpx"
              => /\ fitOut.made[j].v.kind = "cnum"
                 /\ HoldsGuess(fitOut.made[j].v.re, given.items[j].v.re)
                 /\ HoldsGuess(fitOut.made[j].v.im, given.items[j].v.im)

\* C9: guess succeeds for any Parametrization (a ParameterizedObject whose
\* wrapped object has tied and fixed quantities included), and the object it
\* builds carries each free parameter's own guess in every slot that the
\* parameter occupies.
C9_GuessReproduces ==
    (fitOp = "guess" /\ (given.kind = "Parametrization" => AllSupplied))
        => /\ fitOut.err = "none"
           /\ IF given.kind = "Parametrization" THEN ArgsHoldGuesses
              ELSE SlotsHoldGuesses

\* C10: translated and rotated fail with UnrecognizedCoordinates, and
\* return no composite, whenever their arguments are neither one 3-vector
\* nor three scalars (one vector of length 1, 2 or 4, or exactly two
\* scalars, for example).
C10_MalformedFails ==
    (geoOp \in {"translated", "rotated"} /\ ~WellFormed(geoArgs))
        => /\ geoOut.err = "UnrecognizedCoordinates"
           /\ ~geoOut.returned

\* the entries of the list that are the amplitude Parameter
AmplitudeEntries(list) == {i \in 1..Len(list) : list[i] = AlphaHandle}

\* C17: constructing a Model leaves the free list of the Parametrization it
\* wraps unchanged: after any number of Models the Parametrization's free
\* list is what its construction made it, and the list that is a Model's
\* parameters holds the amplitude Parameter at most once.
C17_FreeListKept ==
    models > 0
        => /\ free = Constructed(given).free
           /\ Cardinality(AmplitudeEntries(free)) <= 1

\* group g of c is one the check passes: not empty, every member present,
\* every member equal to the first
GroupFine(c, g) ==
    /\ c.ties[g].v # <<>>
    /\ ~GroupMissing(RawOf(c), c.ties[g].v)
    /\ ~GroupDisagrees(RawOf(c), c.ties[g].v)

\* the children of c can be read, and some tie group of c lists a raw name
\* that is not among c's raw entries
Dangles(c) ==
    /\ RawParameters(c).err = "none"
    /\ \E g \in 1..Len(c.ties) : GroupMissing(RawOf(c), c.ties[g].v)

\* the first group of c that the check does not pass lists a missing name
DanglingMetFirst(c) ==
    \E g \in 1..Len(c.ties) :
        /\ GroupMissing(RawOf(c), c.ties[g].v)
        /\ \A g2 \in 1..(g - 1) : GroupFine(c, g2)

\* C13 (as stated): whenever some tie group lists a raw name that is not a
\* key of the composite's raw entries, construction, add, add_tie and a read
\* of parameters fail with UnknownTieMember.
C13_DanglingRaisesUnknown ==
    (CheckRan /\ Dangles(comp)) => raised = "UnknownTieMember"

\* C13 (amended): while a dangling member exists none of construction, add,
\* add_tie and a read of parameters returns normally; the error is
\* UnknownTieMember if and only if the first group, in table order, that
\* the check does not pass is one that lists a missing name, and otherwise
\* it is the error of the earlier faulty group.
C13_DanglingNeverPasses ==
    (CheckRan /\ Dangles(comp))
        => /\ raised # "none"
           /\ raised = "UnknownTieMember" <=> DanglingMetFirst(comp)

\* C13 witness: add_tie has just raised UnknownTieMember on a table whose
\* dangling group comes after a group the check passed.
C13_Witness ==
    /\ op = "add_tie"
    /\ raised = "UnknownTieMember"
    /\ Dangles(comp)
    /\ Len(comp.ties) = 2
    /\ GroupFine(comp, 1)

\* C15: when add_tie or add raises a tie error the composite's tie table
\* and child list are left as they were before the call.
C15_FailedCallRollsBack ==
    [][(op' \in {"add", "add_tie"}
          /\ raised' \in {"UnknownTieMember", "InconsistentTieValue"})
         => comp' = comp]_vars

\* C16: a composite returned by from_parameters or translated has a tie
\* table of its own: an add_tie on it leaves the tie table of the composite
\* it was derived from, and so that composite's parameters, unchanged.
C16_DerivedTableIndependent ==
    [][op' = "derived_add_tie"
         => /\ comp'.ties = comp.ties
            /\ Parameters(comp') = Parameters(comp)]_vars

\* what from_parameters is to leave in a quantity that stores v: a constant
\* keeps v unless a value is supplied and overwrite is set, a prior takes
\* the supplied value or its guess
Expected(v, supplied, ow) ==
    IF IsNumber(v) THEN (IF ow /\ supplied THEN Num(NewRadius) ELSE v)
    ELSE IF supplied THEN Num(NewRadius)
    ELSE Num(v.v)

\* the raw entries of the composite from_parameters built are the expected
\* ones, the flat map supplying every quantity or none
AsExpected(c, new, supplied, ow) ==
    /\ RawParameters(new).err = "none"
    /\ Keys(RawOf(new)) = Keys(RawOf(c))
    /\ \A j \in 1..Len(RawOf(c)) :
          Get(RawOf(new), RawOf(c)[j].k) = Expected(RawOf(c)[j].v, supplied, ow)

\* C11: from_parameters(flat, overwrite) succeeds and, with overwrite=False,
\* every constant of every child keeps its stored value although flat
\* supplies one for it, directly or through a tie display entry; with
\* overwrite=True the supplied value replaces the stored one; a prior that
\* flat leaves out takes its guess.
C11_OverwriteSemantics ==
    op \in {"from_parameters_keep", "from_parameters_overwrite"}
        => /\ raised = "none"
           /\ AsExpected(comp, derived, view # <<>>, op = "from_parameters_overwrite")

\* what one half of a ComplexParameter is to resolve to: a fixed half its
\* stored value, a free half the entry of flat under the half's name, which
\* is its derived name or, for a shared handle, its tie display name
HalfValue(flat, h) ==
    IF pool[h].fixed THEN Number(pool[h].limit) ELSE Get(flat, pool[h].name)

\* the slots of the wrapped object that hold a ComplexParameter
ComplexSlots == {j \in 1..Len(given.items) : given.items[j].v.kind = "cpx"}

\* C14: ParameterizedObject.make_from(flat) succeeds for an object with a
\* ComplexParameter slot, and the slot receives real + i*imag, each half
\* resolved on its own: a fixed half to its stored value, a free half to
\* the entry of flat under its derived name, or under its tie display name
\* when the half's handle is shared with another slot.
C14_ComplexHalves ==
    (fitOp = "make_from" /\ given.kind = "ParameterizedObject")
        => \A j \in ComplexSlots :
              /\ fitOut.err = "none"
              /\ Get(fitOut.made, given.items[j].k)
                    = Complex(HalfValue(fitArg.d, given.items[j].v.re),
                              HalfValue(fitArg.d, given.items[j].v.im))

\* the invocation that the step makes repeats, on the same Model, the flat
\* map of the first invocation
RepeatsFirst ==
    /\ view # <<>>
    /\ view[1].m = models
    /\ view[1].k = fitArg'.d

====
